---- MODULE Spec2Model ----
(***************************************************************************)
(* Model of the Algorithmic-Trading-Bot repository:                        *)
(*   - backtester.backtester: the sequential ledger replay;                *)
(*   - trading_engine.TradingEngine: the live loop, the trading cycle and  *)
(*     the order paths, with risk_manager.RiskManager's checks.            *)
(* Money, prices and share counts are exact rationals <<n, d>> (d > 0, in  *)
(* lowest terms), so that equal values are equal tuples.                   *)
(***************************************************************************)
EXTENDS Integers, Sequences, FiniteSets, TLC

(***************************************************************************)
(* Rational arithmetic.                                                    *)
(***************************************************************************)
Abs(x) == IF x < 0 THEN -x ELSE x

RECURSIVE Gcd(_, _)
Gcd(a, b) == IF b = 0 THEN a ELSE Gcd(b, a % b)

Q(n, d) ==
    LET s == IF d < 0 THEN -1 ELSE 1
        g == Gcd(Abs(n), Abs(d))
    IN  <<(s * n) \div g, (s * d) \div g>>

QInt(n) == <<n, 1>>
Zero == <<0, 1>>
\* Sums and comparisons go through the least common denominator and products
\* are cross-reduced first, which keeps the intermediate integers small.
QAdd(x, y) ==
    LET g == Gcd(x[2], y[2])
    IN  Q(x[1] * (y[2] \div g) + y[1] * (x[2] \div g), (x[2] \div g) * y[2])
QNeg(x) == <<-x[1], x[2]>>
QSub(x, y) == QAdd(x, QNeg(y))
QMul(x, y) ==
    LET g1 == Gcd(Abs(x[1]), y[2])
        g2 == Gcd(Abs(y[1]), x[2])
    IN  Q((x[1] \div g1) * (y[1] \div g2), (x[2] \div g2) * (y[2] \div g1))
QInv(y) == IF y[1] < 0 THEN <<-y[2], -y[1]>> ELSE <<y[2], y[1]>>
QDiv(x, y) == QMul(x, QInv(y))
QLt(x, y) ==
    LET g == Gcd(x[2], y[2])
    IN  x[1] * (y[2] \div g) < y[1] * (x[2] \div g)
QLe(x, y) ==
    LET g == Gcd(x[2], y[2])
    IN  x[1] * (y[2] \div g) <= y[1] * (x[2] \div g)
QMin(x, y) == IF QLe(x, y) THEN x ELSE y
QAbs(x) == <<Abs(x[1]), x[2]>>

(***************************************************************************)
(* Bounds of the model.                                                    *)
(***************************************************************************)
\* number of rows of the price index (row 0 plus the replayed rows)
MaxRows == 3
\* close prices of the replayed rows
ClosePrices == {1, 2}

Tickers == {"A", "B"}
\* iteration orders of data_dict.items()
Orders == {<<"A", "B">>, <<"B", "A">>}
\* per-instrument weights, non-negative and summing to 1
WeightChoices ==
    { [t \in Tickers |-> Q(1, 2)],
      [t \in Tickers |-> IF t = "A" THEN Q(1, 4) ELSE Q(3, 4)] }
\* the event codes of the Position column
Events == {-2, 0, 2}

\* default initial_cash of backtester
InitialCash == 10000

\* buy and sell events the strategy emits, over all symbols, in one run of the
\* live loop; afterwards every latest event is a hold
MaxSignals == 1

\* the watchlist of the live engine, in iteration order
Watchlist == <<"TSLA", "NVDA">>
Symbols == {Watchlist[k] : k \in DOMAIN Watchlist}
\* latest close prices the data provider reports
LivePrices == {100, 600}
\* the account's profit/loss of the day (the engine never reads it)
DailyPnls == {<<0, 1>>, <<-500, 1>>}

\* Config (src/config.py)
MAX_POSITION_SIZE_ALL == <<1, 1>>
MAX_POSITION_SIZE == <<1, 10>>
MAX_DAILY_LOSS == <<2, 100>>
COMMISSION_RATE == <<1, 1000>>
SLIPPAGE == <<1, 1000>>
DEFAULT_CASH == 10000
TRADE_CYCLE_SECONDS == 60
ERROR_BACKOFF_SECONDS == 300
PORTFOLIO_REFRESH_CYCLES == 5
\* the minimum trade value of validate_trade
MinTradeValue == 10

VARIABLES
    \* ---- backtester ----
    data_dict,      \* rows 1..i-1 of the input: row -> ticker -> [Position, Close]
    order,          \* iteration order of data_dict
    weights,        \* ticker -> weight
    portfolio,      \* row -> [Holdings, Cash, Total]
    shares,         \* ticker -> share count
    shares_before,  \* the share counts at the start of the last replayed step
    trades,         \* the trade list
    i,              \* next row of the loop `for i in range(1, len(portfolio))`
    \* ---- live engine ----
    pc,               \* where the loop thread stands in start_trading
    is_trading,       \* TradingEngine.is_trading
    positions,        \* TradingEngine.positions: symbol -> quantity
    cash,             \* TradingEngine.cash
    portfolio_value,  \* TradingEngine.portfolio_value
    last_trade_time,  \* TradingEngine.last_trade_time: 0 is None, each trade a later time
    cycle_count,      \* TradingEngine._cycle_count
    current_data,     \* symbols _get_current_data returned data for, in that cycle
    signals,          \* the signals dict of that cycle: symbol -> [signal, price]
    calls,            \* validate_trade / submit_order calls of the cycle the thread sleeps after
    cycle_error,      \* an error was raised (and caught) inside that cycle
    sleep_seconds,    \* the argument of the time.sleep the thread is in
    daily_pnl,        \* the account's profit/loss of the day, as it stood during that cycle
    stop_requested,   \* stop_trading() has been called
    signals_left,     \* buy and sell events the strategy still emits
    \* ---- one call of a function of risk_manager.py or strategy.py ----
    call,             \* the function called and its arguments
    result,           \* what the call returned, once it has returned
    \* ---- the web application (src/app.py) and the engines it creates ----
    trading_engine,   \* the global trading_engine: 0 is None, else an engine
    engines,          \* engine -> its is_trading, strategy and thread
    configuring,      \* the /configure_trading request inside set_strategy
    applied,          \* the apply_strategy calls made by the engine threads
    installed,        \* the (name, params) pairs __init__ and set_strategy installed
    started,          \* a /start_trading succeeded and no /stop_trading came since
    start_answer,     \* the answer of the latest /start_trading
    requests          \* the number of requests served so far, by endpoint

liveVars == <<pc, is_trading, positions, cash, portfolio_value, last_trade_time,
              cycle_count, current_data, signals, calls, cycle_error, sleep_seconds, daily_pnl,
              stop_requested, signals_left>>

btVars == <<data_dict, order, weights, portfolio, shares, shares_before, trades, i>>

callVars == <<call, result>>

appVars == <<trading_engine, engines, configuring, applied, installed, started,
             start_answer, requests>>

vars == <<btVars, liveVars, callVars, appVars>>

(***************************************************************************)
(* backtester (src/backtester.py)                                          *)
(***************************************************************************)
\* line 37: alloc_cash = current_cash * weights[ticker]
AllocCash(current_cash, w) == QMul(current_cash, w)

\* line 38: shares[ticker] = alloc_cash / close
BuyShares(alloc_cash, close) == QDiv(alloc_cash, close)

SharesAfterSellKept(held) == held
\* line 63: shares[ticker] = 0.0
SharesAfterSell(held) == Zero

MarkToMarketDropped(held, close) == Zero
\* line 65: shares[ticker] * close, the value of the shares carried
MarkToMarket(held, close) == QMul(held, close)

RowTotalCashOnly(current_cash, holdings_value) == current_cash
\* line 68: Total = current_cash + holdings_value
RowTotal(current_cash, holdings_value) == QAdd(current_cash, holdings_value)

\* One pass of the body of `for ticker, data in data_dict.items()` (lines 36-65).
\* acc = [shares, holdings_value, current_cash, trades]
TickerStep(acc, ticker, row, w, date) ==
    LET close == QInt(row[ticker].Close)
        pos == row[ticker].Position
    IN  IF pos = 2
        THEN LET alloc_cash == AllocCash(acc.current_cash, w[ticker])
                 sh == BuyShares(alloc_cash, close)
                 trade_value == QMul(sh, close)
             IN  [shares |-> [acc.shares EXCEPT ![ticker] = sh],
                  holdings_value |-> QAdd(acc.holdings_value, trade_value),
                  current_cash |-> QSub(acc.current_cash, trade_value),
                  trades |-> Append(acc.trades,
                      [date |-> date, ticker |-> ticker, action |-> "BUY",
                       shares |-> sh, price |-> close, value |-> trade_value])]
        ELSE IF pos = -2
        THEN LET trade_value == QMul(acc.shares[ticker], close)
             IN  [shares |-> [acc.shares EXCEPT ![ticker] = SharesAfterSell(acc.shares[ticker])],
                  holdings_value |-> acc.holdings_value,
                  current_cash |-> QAdd(acc.current_cash, trade_value),
                  trades |-> Append(acc.trades,
                      [date |-> date, ticker |-> ticker, action |-> "SELL",
                       shares |-> acc.shares[ticker], price |-> close,
                       value |-> trade_value])]
        ELSE [acc EXCEPT !.holdings_value =
                  QAdd(acc.holdings_value, MarkToMarket(acc.shares[ticker], close))]

RECURSIVE TickerLoop(_, _, _, _, _, _)
TickerLoop(acc, ord, k, row, w, date) ==
    IF k > Len(ord) THEN acc
    ELSE TickerLoop(TickerStep(acc, ord[k], row, w, date), ord, k + 1, row, w, date)

\* The body of the row loop up to the ledger write (lines 33-65), for the
\* iteration order ord.
StepResult(ord, sh, cash_prev, tr, row, w, date) ==
    TickerLoop([shares |-> sh, holdings_value |-> Zero,
                current_cash |-> cash_prev, trades |-> tr],
               ord, 1, row, w, date)

\* lines 66-68: the ledger row written for a step
LedgerRow(res) ==
    [Holdings |-> res.holdings_value,
     Cash |-> res.current_cash,
     Total |-> RowTotal(res.current_cash, res.holdings_value)]

Rows == [Tickers -> [Position : Events, Close : ClosePrices]]

\* lines 19-30: the state before the first step
BtInit ==
    /\ data_dict = <<>>
    /\ order \in Orders
    /\ weights \in WeightChoices
    /\ portfolio = [r \in 0..(MaxRows - 1) |->
                      [Holdings |-> Zero, Cash |-> QInt(InitialCash),
                       Total |-> QInt(InitialCash)]]
    /\ shares = [t \in Tickers |-> Zero]
    /\ shares_before = [t \in Tickers |-> Zero]
    /\ trades = <<>>
    /\ i = 1

\* lines 32-68: one iteration of `for i in range(1, len(portfolio))`
BacktestStep ==
    /\ i < MaxRows
    /\ \E row \in Rows :
         LET res == StepResult(order, shares, portfolio[i - 1].Cash, trades,
                               row, weights, i)
         IN  /\ data_dict' = Append(data_dict, row)
             /\ shares_before' = shares
             /\ shares' = res.shares
             /\ trades' = res.trades
             /\ portfolio' = [portfolio EXCEPT ![i] = LedgerRow(res)]
    /\ i' = i + 1
    /\ UNCHANGED <<order, weights>>
    /\ UNCHANGED liveVars
    /\ UNCHANGED callVars
    /\ UNCHANGED appVars

(***************************************************************************)
(* Properties of the backtester.                                           *)
(***************************************************************************)
\* the row replayed last (i - 1) and the row before it
LastRow == i - 1
Replayed == i > 1

RECURSIVE SumTradeValues(_, _, _, _)
\* sum of the values of the trade records of `date` with `action`, from index k on
SumTradeValues(tr, k, date, action) ==
    IF k > Len(tr) THEN Zero
    ELSE LET rest == SumTradeValues(tr, k + 1, date, action)
         IN  IF tr[k].date = date /\ tr[k].action = action
             THEN QAdd(tr[k].value, rest) ELSE rest

\* C1: every row of the ledger, row 0 included, has Total = Cash + Holdings
\* exactly.
C1_LedgerIdentity ==
    \A r \in 0..(MaxRows - 1) :
        portfolio[r].Total = QAdd(portfolio[r].Cash, portfolio[r].Holdings)

\* a replayed row that holds shares bought in that step
C1_Witness ==
    /\ Replayed
    /\ portfolio[LastRow].Holdings # Zero
    /\ portfolio[LastRow].Cash # Zero
    /\ \E t \in Tickers : data_dict[LastRow][t].Position = 2

\* C2: an instrument with a BUY event at step t is allocated
\* Cash[t-1] x weight[instrument], whatever the other instruments do at t.
C2_BuyAllocatesPreStepCash ==
    Replayed =>
        \A t \in Tickers :
            data_dict[LastRow][t].Position = 2 =>
                \E k \in DOMAIN trades :
                    /\ trades[k].date = LastRow
                    /\ trades[k].ticker = t
                    /\ trades[k].action = "BUY"
                    /\ trades[k].value = QMul(portfolio[LastRow - 1].Cash, weights[t])

\* C3: the total value of the BUY trades of a step never exceeds the cash at
\* the start of the step.
C3_BuysWithinPreStepCash ==
    Replayed =>
        QLe(SumTradeValues(trades, 1, LastRow, "BUY"), portfolio[LastRow - 1].Cash)

\* C4: the ledger row written and the resulting share counts are the same
\* for every iteration order of the instruments.
C4_StepOrderIndependent ==
    Replayed =>
        \A p \in Orders :
            LET res == StepResult(p, shares_before, portfolio[LastRow - 1].Cash,
                                  <<>>, data_dict[LastRow], weights, LastRow)
            IN  /\ LedgerRow(res) = portfolio[LastRow]
                /\ res.shares = shares

\* C5: after a step with a SELL event on an instrument, its share count is
\* exactly 0 and its whole pre-step share count times the close price was
\* added to cash.
C5_FullLiquidationOnSell ==
    Replayed =>
        /\ \A t \in Tickers :
              data_dict[LastRow][t].Position = -2 =>
                  /\ shares[t] = Zero
                  /\ \E k \in DOMAIN trades :
                        /\ trades[k].date = LastRow
                        /\ trades[k].ticker = t
                        /\ trades[k].action = "SELL"
                        /\ trades[k].shares = shares_before[t]
                        /\ trades[k].value =
                              QMul(shares_before[t], QInt(data_dict[LastRow][t].Close))
        /\ portfolio[LastRow].Cash =
              QSub(QAdd(portfolio[LastRow - 1].Cash,
                        SumTradeValues(trades, 1, LastRow, "SELL")),
                   SumTradeValues(trades, 1, LastRow, "BUY"))

\* a SELL step on an instrument that held shares
C5_Witness ==
    /\ Replayed
    /\ \E t \in Tickers :
          /\ data_dict[LastRow][t].Position = -2
          /\ shares_before[t] # Zero
          /\ shares[t] = Zero
          /\ QLt(portfolio[LastRow - 1].Cash, portfolio[LastRow].Cash)

\* C25: every record of the trade list is a trade of a positive number of
\* shares with a positive value; an event that moves no shares appends no
\* record.
C25_TradesAreReal ==
    \A k \in DOMAIN trades :
        QLt(Zero, trades[k].shares) /\ QLt(Zero, trades[k].value)

RECURSIVE HeldValue(_, _, _, _)
\* sum over the instruments ord[k..] of share count x close of the row
HeldValue(sh, row, ord, k) ==
    IF k > Len(ord) THEN Zero
    ELSE QAdd(QMul(sh[ord[k]], QInt(row[ord[k]].Close)),
              HeldValue(sh, row, ord, k + 1))

\* C26: at every step Total = Cash of the row before + the value, at the
\* close of the step, of the shares held before the step.
C26_ValueNeutral ==
    Replayed =>
        portfolio[LastRow].Total =
            QAdd(portfolio[LastRow - 1].Cash,
                 HeldValue(shares_before, data_dict[LastRow], order, 1))

\* C27: Holdings of a replayed row is the value, at the close of the row, of
\* the shares held after the step.
C27_HoldingsAreSharesAtClose ==
    Replayed =>
        portfolio[LastRow].Holdings =
            HeldValue(shares, data_dict[LastRow], order, 1)

\* a step with a BUY on one instrument while the other carries shares
C27_Witness ==
    /\ Replayed
    /\ \E t, u \in Tickers :
          /\ data_dict[LastRow][t].Position = 0
          /\ shares[t] # Zero
          /\ data_dict[LastRow][u].Position = 2
          /\ shares[u] # Zero

(***************************************************************************)
(* RiskManager (src/risk_manager.py)                                       *)
(***************************************************************************)
\* calculate_position_size as the engine calls it: no volatility, with
\* portfolio_value
calculate_position_size(available_cash, current_price, pv) ==
    LET base_position_value == QMul(available_cash, MAX_POSITION_SIZE)
        concentration_limit == QMul(pv, MAX_POSITION_SIZE)
    IN  QDiv(QMin(base_position_value, concentration_limit), current_price)

check_daily_loss_limit(pnl, pv) ==
    LET daily_loss_pct == QDiv(QAbs(QMin(pnl, Zero)), pv)
    IN  QLt(MAX_DAILY_LOSS, daily_loss_pct)

calculate_slippage_and_commission(trade_value) ==
    QAdd(QMul(trade_value, COMMISSION_RATE), QMul(trade_value, SLIPPAGE))

\* current_positions.get(ticker, 0)
PositionOf(current_positions, ticker) ==
    IF ticker \in DOMAIN current_positions THEN current_positions[ticker] ELSE Zero

validate_trade_size_first(ticker, qty, price, trade_type, available_cash, current_positions) ==
    LET trade_value == QAbs(QMul(qty, price))
    IN  IF QLt(trade_value, QInt(MinTradeValue))
        THEN [ok |-> FALSE, reason |-> "Trade too small"]
        ELSE IF trade_type = "buy" /\ QLt(available_cash, trade_value)
        THEN [ok |-> FALSE, reason |-> "Insufficient cash"]
        ELSE IF trade_type = "sell" /\ QLt(PositionOf(current_positions, ticker), qty)
        THEN [ok |-> FALSE, reason |-> "Insufficient shares"]
        ELSE IF trade_type = "buy"
                /\ QLt(QMul(available_cash, MAX_POSITION_SIZE),
                       QMul(QAdd(PositionOf(current_positions, ticker), qty), price))
        THEN [ok |-> FALSE, reason |-> "Position too large"]
        ELSE [ok |-> TRUE, reason |-> "Trade valid"]
validate_trade(ticker, qty, price, trade_type, available_cash, current_positions) ==
    LET trade_value == QAbs(QMul(qty, price))
    IN  IF trade_type = "buy" /\ QLt(available_cash, trade_value)
        THEN [ok |-> FALSE, reason |-> "Insufficient cash"]
        ELSE IF trade_type = "sell" /\ QLt(PositionOf(current_positions, ticker), qty)
        THEN [ok |-> FALSE, reason |-> "Insufficient shares"]
        ELSE IF QLt(trade_value, QInt(MinTradeValue))
        THEN [ok |-> FALSE, reason |-> "Trade too small"]
        ELSE IF trade_type = "buy"
                /\ QLt(QMul(available_cash, MAX_POSITION_SIZE),
                       QMul(QAdd(PositionOf(current_positions, ticker), qty), price))
        THEN [ok |-> FALSE, reason |-> "Position too large"]
        ELSE [ok |-> TRUE, reason |-> "Trade valid"]

\* The arguments validate_trade is called with: share counts (fractional
\* allowed, not negative), prices, cash and positions dicts, with and without
\* an entry for the ticker.
ValidateShares == {Zero, Q(1, 2), QInt(1), QInt(5), QInt(20), QInt(200)}
ValidatePrices == {QInt(5), QInt(10), QInt(100)}
ValidateCash == {Zero, QInt(100), QInt(10000)}
ValidatePositions ==
    { [s \in {} |-> Zero],
      [s \in {Watchlist[1]} |-> QInt(5)],
      [s \in Symbols |-> IF s = Watchlist[1] THEN QInt(15) ELSE QInt(1)] }
ValidateCalls ==
    [op : {"validate_trade"}, ticker : Symbols, shares : ValidateShares,
     price : ValidatePrices, trade_type : {"buy", "sell"},
     available_cash : ValidateCash, current_positions : ValidatePositions]

\* one call of RiskManager.validate_trade: the tuple returned and the
\* positions dict as the call leaves it (the method assigns nothing to it)
ValidateTrade ==
    /\ call.op = "validate_trade"
    /\ ~result.done
    /\ LET v == validate_trade(call.ticker, call.shares, call.price, call.trade_type,
                               call.available_cash, call.current_positions)
       IN  result' = [done |-> TRUE, ok |-> v.ok, reason |-> v.reason,
                      current_positions |-> call.current_positions]
    /\ UNCHANGED call
    /\ UNCHANGED <<btVars, liveVars>>
    /\ UNCHANGED appVars

\* the four rejection rules, as the contract words them
RuleA == call.trade_type = "buy" /\ QLt(call.available_cash, QMul(call.shares, call.price))
RuleB == call.trade_type = "sell"
            /\ QLt(PositionOf(call.current_positions, call.ticker), call.shares)
RuleC == QLt(QMul(call.shares, call.price), QInt(MinTradeValue))
RuleD == call.trade_type = "buy"
            /\ QLt(QMul(call.available_cash, MAX_POSITION_SIZE),
                   QMul(QAdd(PositionOf(call.current_positions, call.ticker), call.shares),
                        call.price))
Validated == call.op = "validate_trade" /\ result.done

\* C12: validate_trade returns valid iff none of (a)-(d) holds; a rejection
\* carries the reason of the first rule that holds, in the order (a), (b),
\* (c), (d); current_positions is left as it was.
C12_ValidateTradeRules ==
    Validated =>
        /\ result.ok <=> ~(RuleA \/ RuleB \/ RuleC \/ RuleD)
        /\ result.reason =
              IF RuleA THEN "Insufficient cash"
              ELSE IF RuleB THEN "Insufficient shares"
              ELSE IF RuleC THEN "Trade too small"
              ELSE IF RuleD THEN "Position too large"
              ELSE "Trade valid"
        /\ result.current_positions = call.current_positions

\* a rejected BUY for which both (a) and (c) hold
C12_Witness ==
    /\ Validated
    /\ RuleA /\ RuleC
    /\ ~result.ok
    /\ result.reason = "Insufficient cash"

\* the two calls of the scenario: available_cash = 100, no position
SmallBuy ==
    /\ call.op = "validate_trade" /\ call.trade_type = "buy"
    /\ call.shares = Q(1, 2) /\ call.price = QInt(5)
    /\ call.available_cash = QInt(100) /\ DOMAIN call.current_positions = {}
FiftyBuy ==
    /\ call.op = "validate_trade" /\ call.trade_type = "buy"
    /\ call.shares = QInt(5) /\ call.price = QInt(10)
    /\ call.available_cash = QInt(100) /\ DOMAIN call.current_positions = {}

\* C13 as stated: the BUY of 0.5 at 5 is rejected as too small and the BUY
\* of 5 at 10 (value 50 <= 100) is accepted.
C13_ScenarioAsStated ==
    result.done =>
        /\ SmallBuy => ~result.ok /\ result.reason = "Trade too small"
        /\ FiftyBuy => result.ok

\* C13 amended: the BUY of 0.5 at 5 is rejected as too small, and the BUY of
\* 5 at 10 is rejected too, as too large a position: 50 > 100 x 0.1.
C13_ScenarioAmended ==
    result.done =>
        /\ SmallBuy => ~result.ok /\ result.reason = "Trade too small"
        /\ FiftyBuy => ~result.ok /\ result.reason = "Position too large"

\* the BUY of 5 at 10 has been validated
C13_Witness == FiftyBuy /\ result.done

(***************************************************************************)
(* TradingEngine (src/trading_engine.py)                                   *)
(***************************************************************************)
\* round(x, 3): the nearest multiple of 1/1000, ties to the even one
Round3(x) ==
    LET g == Gcd(1000, x[2])
        n == x[1] * (1000 \div g)
        d == x[2] \div g
        f == n \div d
        r == n % d
        up == IF 2 * r > d THEN 1
              ELSE IF 2 * r < d THEN 0
              ELSE IF f % 2 = 0 THEN 0 ELSE 1
    IN  Q(f + up, 1000)

CallValidate(symbol, qty, side, ok) ==
    [op |-> "validate", symbol |-> symbol, qty |-> qty, side |-> side, ok |-> ok]
CallSubmit(symbol, qty, side, ok) ==
    [op |-> "submit", symbol |-> symbol, qty |-> qty, side |-> side, ok |-> ok]

OrderGateIgnored(valid) == TRUE
\* lines 182-184 and 231-233: `if not is_valid: return`
OrderGate(valid) == valid

OnSubmitErrorBooked(validated, booked) == booked
\* lines 204-213 and 248-257: submit_order raises before the `Update local
\* state` statements are reached, and the handler only logs
OnSubmitError(validated, booked) == validated

\* _execute_buy_order; eng = [positions, cash, last_trade_time, calls, error],
\* submit_raises: trading_client.submit_order raises
execute_buy_order(eng, symbol, price, current_position, pv, submit_raises, now) ==
    LET qty == Round3(calculate_position_size(eng.cash, price, pv))
        v == validate_trade(symbol, qty, price, "buy", eng.cash, eng.positions)
        validated == [eng EXCEPT !.calls = Append(@, CallValidate(symbol, qty, "buy", v.ok))]
        trade_value == QMul(qty, price)
        total_cost == QAdd(trade_value, calculate_slippage_and_commission(trade_value))
        booked == [validated EXCEPT
                      !.positions[symbol] = QAdd(current_position, qty),
                      !.cash = QSub(@, total_cost),
                      !.last_trade_time = now]
    IN  IF QLe(qty, Zero) THEN eng
        ELSE IF ~OrderGate(v.ok) THEN validated
        ELSE IF QLt(eng.cash, total_cost) THEN validated
        ELSE IF submit_raises
        THEN [OnSubmitError(validated, booked) EXCEPT
                 !.calls = Append(@, CallSubmit(symbol, qty, "buy", FALSE)),
                 !.error = TRUE]
        ELSE [booked EXCEPT
                 !.calls = Append(@, CallSubmit(symbol, qty, "buy", TRUE))]

\* _execute_sell_order
execute_sell_order(eng, symbol, price, current_position, submit_raises, now) ==
    LET qty_to_sell == Round3(current_position)
        v == validate_trade(symbol, qty_to_sell, price, "sell", eng.cash, eng.positions)
        validated == [eng EXCEPT
                         !.calls = Append(@, CallValidate(symbol, qty_to_sell, "sell", v.ok))]
        trade_value == QMul(qty_to_sell, price)
        net_proceeds == QSub(trade_value, calculate_slippage_and_commission(trade_value))
        booked == [validated EXCEPT
                      !.positions[symbol] = Zero,
                      !.cash = QAdd(@, net_proceeds),
                      !.last_trade_time = now]
    IN  IF QLe(current_position, Zero) THEN eng
        ELSE IF QLe(qty_to_sell, Zero) THEN eng
        ELSE IF ~OrderGate(v.ok) THEN validated
        ELSE IF submit_raises
        THEN [OnSubmitError(validated, booked) EXCEPT
                 !.calls = Append(@, CallSubmit(symbol, qty_to_sell, "sell", FALSE)),
                 !.error = TRUE]
        ELSE [booked EXCEPT
                 !.calls = Append(@, CallSubmit(symbol, qty_to_sell, "sell", TRUE))]

\* ---- run_backtest (src/app.py) ----

\* the keys of the strategies table of apply_strategy
KnownStrategies == {"sma_crossover", "rsi", "macd", "bollinger_bands"}
\* the strategy field of a request is free text; history is what get_data
\* does for each ticker: returns rows, returns an empty frame, or raises
BacktestRequests ==
    [op : {"run_backtest"}, tickers : {Watchlist},
     strategy : KnownStrategies \cup {"momentum"}, params_positive : BOOLEAN,
     history : [Symbols -> {"rows", "empty", "raises"}]]

\* the loop over tickers (lines 83-98): acc.fetched lists the get_data calls,
\* acc.data_dict the tickers stored, acc.status the early return if any
RECURSIVE FetchAndApply(_, _, _)
FetchAndApply(req, k, acc) ==
    IF k > Len(req.tickers) THEN acc
    ELSE LET ticker == req.tickers[k]
             fetched == Append(acc.fetched, ticker)
         IN  IF req.history[ticker] = "raises"
             THEN [acc EXCEPT !.fetched = fetched, !.status = 500]
             ELSE IF req.history[ticker] = "empty"
             THEN [acc EXCEPT !.fetched = fetched, !.status = 400]
             ELSE IF req.strategy \notin KnownStrategies
             THEN [acc EXCEPT !.fetched = fetched, !.status = 500]
             ELSE FetchAndApply(req, k + 1,
                      [acc EXCEPT !.fetched = fetched,
                                  !.data_dict = Append(@, ticker)])

run_backtest(req) ==
    IF req.strategy \in KnownStrategies /\ ~req.params_positive
    THEN [status |-> 400, fetched |-> <<>>, data_dict |-> <<>>, backtested |-> FALSE]
    ELSE LET acc == FetchAndApply(req, 1,
                        [status |-> 0, fetched |-> <<>>, data_dict |-> <<>>])
         IN  IF acc.status # 0
             THEN [status |-> acc.status, fetched |-> acc.fetched,
                   data_dict |-> acc.data_dict, backtested |-> FALSE]
             ELSE IF acc.data_dict = <<>>
             THEN [status |-> 400, fetched |-> acc.fetched,
                   data_dict |-> acc.data_dict, backtested |-> FALSE]
             ELSE [status |-> 200, fetched |-> acc.fetched,
                   data_dict |-> acc.data_dict, backtested |-> TRUE]

RunBacktest ==
    /\ call.op = "run_backtest"
    /\ ~result.done
    /\ LET r == run_backtest(call)
       IN  result' = [done |-> TRUE, status |-> r.status, fetched |-> r.fetched,
                      data_dict |-> r.data_dict, backtested |-> r.backtested]
    /\ UNCHANGED call
    /\ UNCHANGED <<btVars, liveVars>>
    /\ UNCHANGED appVars

\* C21: in a backtest request with a known strategy and positive parameters,
\* only the instruments whose history is empty or unavailable are skipped:
\* every instrument with rows is stored in data_dict and, when there is one,
\* the backtest runs.
C21_OnlyFailedInstrumentSkipped ==
    (call.op = "run_backtest" /\ result.done /\ call.strategy \in KnownStrategies /\ call.params_positive)
    => /\ \A t \in Symbols :
             call.history[t] = "rows"
             => \E k \in DOMAIN result.data_dict : result.data_dict[k] = t
       /\ (\E t \in Symbols : call.history[t] = "rows") => result.backtested

\* C22: a backtest request naming an unknown strategy is rejected before any
\* price data is fetched.
C22_UnknownStrategyRejectedBeforeFetch ==
    (call.op = "run_backtest" /\ result.done /\ call.strategy \notin KnownStrategies)
    => /\ result.status # 200
       /\ result.fetched = <<>>

\* _execute_buy_order up to its validation (lines 166-184), for a symbol
\* with no position: cash, portfolio_value and price drawn from small sets
SizingCalls ==
    [op : {"execute_buy_order"}, symbol : {Watchlist[1]},
     price : {QInt(3), QInt(7), QInt(100), QInt(600), QInt(30000)},
     cash : {QInt(100), QInt(1000), QInt(10000)},
     portfolio_value : {QInt(1000), QInt(10000)}]

SizeAndValidate ==
    /\ call.op = "execute_buy_order"
    /\ ~result.done
    /\ LET qty == Round3(calculate_position_size(call.cash, call.price,
                                                 call.portfolio_value))
           v == validate_trade(call.symbol, qty, call.price, "buy", call.cash, <<>>)
       IN  result' = IF QLe(qty, Zero)
                     THEN [done |-> TRUE, shares |-> qty, validated |-> FALSE,
                           ok |-> FALSE, reason |-> "none"]
                     ELSE [done |-> TRUE, shares |-> qty, validated |-> TRUE,
                           ok |-> v.ok, reason |-> v.reason]
    /\ UNCHANGED call
    /\ UNCHANGED <<btVars, liveVars>>
    /\ UNCHANGED appVars

\* C30: for an instrument with no position, a sized and rounded quantity
\* whose trade value is at least $10 always passes validate_trade.
C30_SizedBuyIsValid ==
    (call.op = "execute_buy_order" /\ result.done /\ result.validated
        /\ QLe(QInt(MinTradeValue), QMul(result.shares, call.price)))
    => result.ok

\* What the collaborators do for one symbol in one cycle: the data fetch
\* (get_data), the latest event of apply_strategy, the latest close and
\* submit_order.
HasData(sc) == sc.fetch \in {"ok", "retry_ok"}
Generated(sc) == HasData(sc) /\ ~sc.sig_raises
QuietScenarios ==
    {[fetch |-> f, sig_raises |-> FALSE, sig |-> 0, price |-> 100,
      submit_raises |-> FALSE] : f \in {"empty", "error"}}
    \cup {[fetch |-> f, sig_raises |-> g, sig |-> 0, price |-> 100,
           submit_raises |-> FALSE] : f \in {"ok", "retry_ok"}, g \in BOOLEAN}
TradeScenarios ==
    [fetch : {"ok"}, sig_raises : {FALSE}, sig : {2, -2},
     price : LivePrices, submit_raises : BOOLEAN]
SymbolScenarios == QuietScenarios \cup TradeScenarios

\* the body of the loop of _execute_trades for one symbol
execute_trade(eng, symbol, sc, pv, now) ==
    IF sc.sig = 2
    THEN execute_buy_order(eng, symbol, QInt(sc.price), eng.positions[symbol], pv,
                           sc.submit_raises, now)
    ELSE IF sc.sig = -2
    THEN execute_sell_order(eng, symbol, QInt(sc.price), eng.positions[symbol],
                            sc.submit_raises, now)
    ELSE eng

RECURSIVE execute_trades(_, _, _, _, _)
\* _execute_trades over the signals dict, which holds, in watchlist order,
\* the symbols with data whose signal generation did not raise
execute_trades(eng, k, scen, pv, now) ==
    IF k > Len(Watchlist) THEN eng
    ELSE LET symbol == Watchlist[k]
             sc == scen[symbol]
         IN  execute_trades(
                 IF Generated(sc)
                 THEN execute_trade(eng, symbol, sc, pv, now) ELSE eng,
                 k + 1, scen, pv, now)

\* what the broker answers to get_account / get_all_positions
BrokerAccounts ==
    { [portfolio_value |-> QInt(10000), cash |-> QInt(10000),
       positions |-> [s \in Symbols |-> Zero]],
      [portfolio_value |-> QInt(9500), cash |-> QInt(8000),
       positions |-> [s \in Symbols |-> IF s = Watchlist[1] THEN QInt(15) ELSE Zero]] }
RefreshOutcomes == {"ok", "account_raises", "positions_raises"}

\* lines 89-92 of _trading_cycle catch every Exception raised in the cycle,
\* so none reaches the handler of start_trading
cycle_raises(any_error) == FALSE

\* start_trading lines 49-54: the sleep that follows a cycle
SleepAfterCycle(raised) ==
    IF raised THEN ERROR_BACKOFF_SECONDS ELSE TRADE_CYCLE_SECONDS

\* the engine's books, and what the model records of the last cycle
bookVars == <<positions, cash, portfolio_value, last_trade_time, cycle_count>>
recordVars == <<current_data, signals, calls, cycle_error, sleep_seconds, daily_pnl>>

NoRecord ==
    /\ current_data = {}
    /\ signals = <<>>
    /\ calls = <<>>
    /\ cycle_error = FALSE
    /\ sleep_seconds = 0
    /\ daily_pnl = Zero

\* TradingEngine.__init__ (lines 24-41), with the thread of /start_trading
\* (app.py lines 155-157) started and not yet run
EngineInit ==
    /\ pc = "started"
    /\ is_trading = FALSE
    /\ positions = [s \in Symbols |-> Zero]
    /\ cash = QInt(DEFAULT_CASH)
    /\ portfolio_value = QInt(DEFAULT_CASH)
    /\ last_trade_time = 0
    /\ cycle_count = 0
    /\ NoRecord
    /\ stop_requested = FALSE
    /\ signals_left = MaxSignals

\* start_trading lines 45-46
LoopEnter ==
    /\ pc = "started"
    /\ is_trading' = TRUE
    /\ pc' = "while"
    /\ UNCHANGED <<bookVars, recordVars, stop_requested, signals_left>>
    /\ UNCHANGED btVars
    /\ UNCHANGED callVars
    /\ UNCHANGED appVars

\* start_trading line 48: `while self.is_trading`
LoopCheck ==
    /\ pc = "while"
    /\ pc' = IF is_trading THEN "cycle" ELSE "returned"
    /\ UNCHANGED <<is_trading, bookVars, recordVars, stop_requested, signals_left>>
    /\ UNCHANGED btVars
    /\ UNCHANGED callVars
    /\ UNCHANGED appVars

PcErrorEndsLoop(raised) == IF raised THEN "returned" ELSE "sleep"
\* start_trading lines 49-54: whether the cycle raised or not, the thread
\* sleeps and goes back to the loop test
PcAfterCycle(raised) == "sleep"

\* start_trading lines 50-54 with _trading_cycle (lines 61-92),
\* _get_current_data, _generate_signals, _execute_trades and
\* _update_portfolio_value
TradingCycle ==
    /\ pc = "cycle"
    /\ \E scen \in [Symbols -> IF signals_left = 0 THEN QuietScenarios
                               ELSE SymbolScenarios] :
         LET emitted == Cardinality({s \in Symbols : scen[s] \in TradeScenarios})
             data == {s \in Symbols : HasData(scen[s])}
             raised == \E s \in Symbols :
                          \/ scen[s].fetch \in {"error", "retry_ok"}
                          \/ HasData(scen[s]) /\ scen[s].sig_raises
             now == last_trade_time + 1
             eng0 == [positions |-> positions, cash |-> cash,
                      last_trade_time |-> last_trade_time, calls |-> <<>>,
                      error |-> raised]
             eng == execute_trades(eng0, 1, scen, portfolio_value, now)
             count == (cycle_count + 1) % PORTFOLIO_REFRESH_CYCLES
         IN  /\ emitted <= signals_left
             /\ signals_left' = signals_left - emitted
             /\ current_data' = data
             /\ signals' = [s \in {x \in data : Generated(scen[x])} |->
                              [signal |-> scen[s].sig, price |-> scen[s].price]]
             /\ calls' = eng.calls
             /\ last_trade_time' = eng.last_trade_time
             /\ IF data = {}
                \* lines 69-71: no market data, the cycle returns
                THEN /\ UNCHANGED <<positions, cash, portfolio_value, cycle_count>>
                     /\ cycle_error' = raised
                ELSE /\ cycle_count' = count
                     /\ IF count # 0
                        \* _update_portfolio_value lines 268-269: not due
                        THEN /\ cycle_error' = eng.error
                             /\ portfolio_value' = portfolio_value
                             /\ cash' = eng.cash
                             /\ positions' = eng.positions
                        \* lines 271-279: the refresh from the broker
                        ELSE \E refresh \in RefreshOutcomes, account \in BrokerAccounts :
                             /\ refresh = "account_raises" =>
                                   account = CHOOSE a \in BrokerAccounts : TRUE
                             /\ cycle_error' = (eng.error \/ refresh # "ok")
                             /\ portfolio_value' =
                                   IF refresh # "account_raises"
                                   THEN account.portfolio_value ELSE portfolio_value
                             /\ cash' =
                                   IF refresh # "account_raises"
                                   THEN account.cash ELSE eng.cash
                             /\ positions' =
                                   IF refresh = "ok"
                                   THEN account.positions ELSE eng.positions
             /\ sleep_seconds' = SleepAfterCycle(cycle_raises(cycle_error'))
             /\ pc' = PcAfterCycle(cycle_error')
             /\ daily_pnl' \in DailyPnls
    /\ UNCHANGED <<is_trading, stop_requested>>
    /\ UNCHANGED btVars
    /\ UNCHANGED callVars
    /\ UNCHANGED appVars

\* time.sleep returns (lines 51, 54); the record of the finished cycle is dropped
Wake ==
    /\ pc = "sleep"
    /\ pc' = "while"
    /\ current_data' = {}
    /\ signals' = <<>>
    /\ calls' = <<>>
    /\ cycle_error' = FALSE
    /\ sleep_seconds' = 0
    /\ daily_pnl' = Zero
    /\ UNCHANGED <<is_trading, bookVars, stop_requested, signals_left>>
    /\ UNCHANGED btVars
    /\ UNCHANGED callVars
    /\ UNCHANGED appVars

\* stop_trading (lines 56-59), called by the /stop_trading endpoint
StopTrading ==
    /\ is_trading' = FALSE
    /\ stop_requested' = TRUE
    /\ UNCHANGED <<pc, bookVars, recordVars, signals_left>>
    /\ UNCHANGED btVars
    /\ UNCHANGED callVars
    /\ UNCHANGED appVars

\* the live engine at rest, for the backtest specification
EngineParked ==
    /\ pc = "returned"
    /\ is_trading = FALSE
    /\ positions = [s \in Symbols |-> Zero]
    /\ cash = QInt(DEFAULT_CASH)
    /\ portfolio_value = QInt(DEFAULT_CASH)
    /\ last_trade_time = 0
    /\ cycle_count = 0
    /\ NoRecord
    /\ stop_requested = FALSE
    /\ signals_left = 0

(***************************************************************************)
(* Properties of the live engine.                                          *)
(***************************************************************************)
Submits == {j \in DOMAIN calls : calls[j].op = "submit"}
Validations == {j \in DOMAIN calls : calls[j].op = "validate"}

\* C6: every submit_order for a (symbol, quantity, side) comes after a
\* validate_trade that returned valid for the same symbol, quantity and side
\* in the same cycle; nothing is submitted for a symbol whose validation was
\* rejected, and no validation of a symbol follows its submission.
C6_ValidateBeforeSubmit ==
    /\ \A j \in Submits :
          /\ \E k \in Validations :
                /\ k < j
                /\ calls[k].ok
                /\ calls[k].symbol = calls[j].symbol
                /\ calls[k].qty = calls[j].qty
                /\ calls[k].side = calls[j].side
          /\ \A k \in Validations :
                calls[k].symbol = calls[j].symbol => k < j
    /\ \A k \in Validations :
          ~calls[k].ok => \A j \in Submits : calls[j].symbol # calls[k].symbol

\* a cycle that has validated an order, found it valid and submitted it
C6_Witness ==
    /\ pc = "sleep"
    /\ \E j \in Submits, k \in Validations :
          /\ k < j
          /\ calls[k].ok
          /\ calls[k].symbol = calls[j].symbol

\* C7: while the daily loss limit is breached no BUY order is submitted in
\* any cycle, and no position is sold other than on a SELL signal.
C7_NoBuyWhileDailyLossBreached ==
    (pc = "sleep" /\ check_daily_loss_limit(daily_pnl, portfolio_value)) =>
        \A j \in Submits :
            /\ calls[j].side # "buy"
            /\ calls[j].symbol \in DOMAIN signals
            /\ signals[calls[j].symbol].signal = -2

\* C8: after a cycle in which an error was raised the thread sleeps
\* ERROR_BACKOFF_SECONDS, not TRADE_CYCLE_SECONDS.
C8_BackoffAfterFailedCycle ==
    (pc = "sleep" /\ cycle_error) => sleep_seconds = ERROR_BACKOFF_SECONDS

\* C9: while is_trading stays true an error raised inside a cycle never ends
\* the loop: after a failing cycle another cycle is eventually started.
C9_LoopSurvivesFailedCycle ==
    /\ [](pc = "returned" => ~is_trading)
    /\ ((pc = "sleep" /\ cycle_error) ~> (pc = "cycle" \/ ~is_trading))

\* a failing cycle has just ended and trading has not been stopped
C9_Witness ==
    /\ pc = "sleep"
    /\ cycle_error
    /\ is_trading
    /\ ~stop_requested

\* C10: once stop_trading() has been called, a cycle in progress runs to
\* completion, no new cycle begins and the loop eventually returns.
C10_StopEndsLoop ==
    /\ [][(stop_requested /\ pc = "while") => pc' # "cycle"]_vars
    /\ ((stop_requested /\ pc = "cycle") ~> (pc = "sleep"))
    /\ (stop_requested ~> (pc = "returned"))

(***************************************************************************)
(* Strategies (src/strategy.py).  A series is indexed from 0, as iloc is;  *)
(* a float column holds rationals and NaN.                                 *)
(***************************************************************************)
\* float values that are not numbers: 0/0 and x/0 for x > 0
NaN == <<0, 0>>
Inf == <<1, 0>>
IsNumber(x) == x[2] # 0
\* float comparisons: False as soon as an operand is NaN
FLt(x, y) == IsNumber(x) /\ IsNumber(y) /\ QLt(x, y)
FLe(x, y) == IsNumber(x) /\ IsNumber(y) /\ QLe(x, y)
\* float division of two non-negative values
FDiv(x, y) ==
    IF ~IsNumber(x) \/ ~IsNumber(y) THEN NaN
    ELSE IF y # Zero THEN QDiv(x, y)
    ELSE IF x = Zero THEN NaN ELSE Inf

Bars(closes) == 0..(Len(closes) - 1)

RECURSIVE StoredColumn(_, _)
\* a column assigned to the frame: the n values of f, computed once
StoredColumn(f, n) ==
    IF n = 0 THEN <<>> ELSE (n - 1 :> f[n - 1]) @@ StoredColumn(f, n - 1)

\* data['Close']
CloseColumn(closes) ==
    StoredColumn([t \in Bars(closes) |-> QInt(closes[t + 1])], Len(closes))
\* data = data.copy(): the frame the signals are computed on, one column so far
NewFrame(closes) == ("Close" :> CloseColumn(closes))
\* data[name] = col: the columns assigned so far are kept
WithColumn(data, name, col) == data @@ (name :> col)

RECURSIVE SumOver(_, _, _)
\* x[a] + ... + x[b], NaN if one of them is
SumOver(x, a, b) ==
    IF a > b THEN Zero
    ELSE LET rest == SumOver(x, a + 1, b)
         IN  IF IsNumber(x[a]) /\ IsNumber(rest) THEN QAdd(x[a], rest) ELSE NaN

\* x.rolling(window=W).mean() at t: NaN until W values are there
RollingMean(x, t, W) ==
    IF t + 1 < W THEN NaN
    ELSE LET sum == SumOver(x, t - W + 1, t)
         IN  IF IsNumber(sum) THEN QDiv(sum, QInt(W)) ELSE NaN

ValidMaskFromFullWindow(n, W, t) == n > W /\ t >= W - 1
\* the rows the strategies assign a regime to: `if len(data) > W` and
\* valid_mask = (data.index >= data.index[W]), on a strictly increasing index
ValidMask(n, W, t) == n > W /\ t >= W

SignalLevel(sig, t) == QInt(sig[t])
\* data['Signal'].diff()
SignalDiff(sig, t) == IF t = 0 THEN NaN ELSE QInt(sig[t] - sig[t - 1])
TradeEventRaw(d) == d
\* the two .loc assignments: 1 becomes 2 and -1 becomes -2
TradeEvent(d) ==
    IF d = QInt(1) THEN QInt(2) ELSE IF d = QInt(-1) THEN QInt(-2) ELSE d
\* the Position column
PositionColumn(sig) ==
    StoredColumn([t \in DOMAIN sig |-> TradeEvent(SignalDiff(sig, t))],
                 Cardinality(DOMAIN sig))

\* ---- SMACrossoverStrategy.generate_signals ----
SmaRegimeWide(sma_short, sma_long) == IF FLt(sma_long, sma_short) THEN 2 ELSE -2
\* np.where(sma_short_valid > sma_long_valid, 1, -1)
SmaRegime(sma_short, sma_long) == IF FLt(sma_long, sma_short) THEN 1 ELSE -1
SmaFrame(closes, short_window, long_window) ==
    LET n == Len(closes)
        d0 == NewFrame(closes)
        d1 == WithColumn(d0, "SMA_short",
                  StoredColumn([t \in Bars(closes) |->
                                   RollingMean(d0.Close, t, short_window)], n))
        d2 == WithColumn(d1, "SMA_long",
                  StoredColumn([t \in Bars(closes) |->
                                   RollingMean(d1.Close, t, long_window)], n))
    IN  WithColumn(d2, "Signal",
            StoredColumn([t \in Bars(closes) |->
                             IF ValidMask(n, long_window, t)
                             THEN SmaRegime(d2.SMA_short[t], d2.SMA_long[t])
                             ELSE 0], n))
SmaSignal(closes, short_window, long_window) ==
    SmaFrame(closes, short_window, long_window).Signal

\* ---- RSIStrategy.generate_signals ----
\* data['Close'].diff()
CloseDelta(close, t) == IF t = 0 THEN NaN ELSE QSub(close[t], close[t - 1])
\* delta.where(delta > 0, 0) and -delta.where(delta < 0, 0)
GainOf(delta) == IF FLt(Zero, delta) THEN delta ELSE Zero
LossOf(delta) == IF FLt(delta, Zero) THEN QNeg(delta) ELSE Zero
\* 100 - (100 / (1 + rs)) with rs = gain / loss
RsiValue(gain, loss) ==
    LET rs == FDiv(gain, loss)
    IN  IF rs = NaN THEN NaN
        ELSE IF rs = Inf THEN QInt(100)
        ELSE QSub(QInt(100), QDiv(QInt(100), QAdd(QInt(1), rs)))
\* the frame up to data['RSI']
RsiFrame(closes, window) ==
    LET n == Len(closes)
        d0 == NewFrame(closes)
        d1 == WithColumn(d0, "delta",
                  StoredColumn([t \in Bars(closes) |-> CloseDelta(d0.Close, t)], n))
        d2 == WithColumn(d1, "up",
                  StoredColumn([t \in Bars(closes) |-> GainOf(d1.delta[t])], n))
        d3 == WithColumn(d2, "down",
                  StoredColumn([t \in Bars(closes) |-> LossOf(d2.delta[t])], n))
        d4 == WithColumn(d3, "gain",
                  StoredColumn([t \in Bars(closes) |->
                                   RollingMean(d3.up, t, window)], n))
        d5 == WithColumn(d4, "loss",
                  StoredColumn([t \in Bars(closes) |->
                                   RollingMean(d4.down, t, window)], n))
    IN  WithColumn(d5, "RSI",
            StoredColumn([t \in Bars(closes) |->
                             RsiValue(d5.gain[t], d5.loss[t])], n))
RsiRegimeSwapped(rsi, oversold, overbought) ==
    IF FLt(rsi, QInt(oversold)) THEN -1
    ELSE IF FLt(QInt(overbought), rsi) THEN 1 ELSE 0
\* buy when oversold, sell when overbought
RsiRegime(rsi, oversold, overbought) ==
    IF FLt(rsi, QInt(oversold)) THEN 1
    ELSE IF FLt(QInt(overbought), rsi) THEN -1 ELSE 0
RsiSignal(closes, window, oversold, overbought) ==
    LET n == Len(closes)
        d6 == RsiFrame(closes, window)
    IN  StoredColumn([t \in Bars(closes) |->
                         IF ValidMask(n, window, t)
                         THEN RsiRegime(d6.RSI[t], oversold, overbought)
                         ELSE 0], n)

\* ---- MACDStrategy.generate_signals ----
RECURSIVE EwmSums(_, _, _)
\* x.ewm(span=span).mean() (adjust=True): the weights are (1 - alpha)^i,
\* alpha = 2 / (span + 1); EwmSums holds, for each of the first n bars, the
\* weighted sum of the values so far and the sum of the weights
EwmSums(x, n, decay) ==
    IF n = 1 THEN (0 :> <<x[0], QInt(1)>>)
    ELSE LET prev == EwmSums(x, n - 1, decay)
         IN  prev @@ (n - 1 :> <<QAdd(x[n - 1], QMul(decay, prev[n - 2][1])),
                                 QAdd(QInt(1), QMul(decay, prev[n - 2][2]))>>)
Ewm(x, span) ==
    LET n == Cardinality(DOMAIN x)
        sums == EwmSums(x, n, Q(span - 1, span + 1))
    IN  StoredColumn([t \in DOMAIN sums |-> QDiv(sums[t][1], sums[t][2])], n)
MacdRegime(macd, signal_line, histogram) ==
    IF QLt(signal_line, macd) /\ QLt(Zero, histogram) THEN 1
    ELSE IF QLt(macd, signal_line) /\ QLt(histogram, Zero) THEN -1 ELSE 0
MacdSignal(closes, fast_period, slow_period, signal_period) ==
    LET n == Len(closes)
        d0 == NewFrame(closes)
        d1 == WithColumn(d0, "exp1", Ewm(d0.Close, fast_period))
        d2 == WithColumn(d1, "exp2", Ewm(d1.Close, slow_period))
        d3 == WithColumn(d2, "MACD",
                  StoredColumn([t \in Bars(closes) |->
                                   QSub(d2.exp1[t], d2.exp2[t])], n))
        d4 == WithColumn(d3, "Signal_Line", Ewm(d3.MACD, signal_period))
        d5 == WithColumn(d4, "MACD_Histogram",
                  StoredColumn([t \in Bars(closes) |->
                                   QSub(d4.MACD[t], d4.Signal_Line[t])], n))
    IN  StoredColumn([t \in Bars(closes) |->
                         IF ValidMask(n, slow_period, t)
                         THEN MacdRegime(d5.MACD[t], d5.Signal_Line[t],
                                         d5.MACD_Histogram[t])
                         ELSE 0], n)

\* ---- BollingerBandsStrategy.generate_signals ----
\* the square of x.rolling(window=W).std() at t (ddof = 1), mean being the
\* mean of the same window: NaN until W values are there, and for W = 1
RollingVar(x, mean, t, W) ==
    IF t + 1 < W \/ W < 2 THEN NaN
    ELSE LET sq == StoredColumn(
                       [u \in 0..t |->
                           IF u < t - W + 1 THEN Zero
                           ELSE QMul(QSub(x[u], mean), QSub(x[u], mean))],
                       t + 1)
         IN  QDiv(SumOver(sq, t - W + 1, t), QInt(W - 1))
\* num_std * std <= gap, decided on the squares (std >= 0, num_std >= 0)
WithinGap(var, num_std, gap) ==
    /\ IsNumber(var)
    /\ QLe(Zero, gap)
    /\ QLe(QMul(QInt(num_std * num_std), var), QMul(gap, gap))
\* close <= BB_Lower, else close >= BB_Upper
BollingerRegime(close, middle, var, num_std) ==
    IF WithinGap(var, num_std, QSub(middle, close)) THEN 1
    ELSE IF WithinGap(var, num_std, QSub(close, middle)) THEN -1 ELSE 0
BollingerSignal(closes, window, num_std) ==
    LET n == Len(closes)
        d0 == NewFrame(closes)
        d1 == WithColumn(d0, "BB_Middle",
                  StoredColumn([t \in Bars(closes) |->
                                   RollingMean(d0.Close, t, window)], n))
        d2 == WithColumn(d1, "bb_var",
                  StoredColumn([t \in Bars(closes) |->
                                   RollingVar(d1.Close, d1.BB_Middle[t], t, window)],
                               n))
    IN  StoredColumn([t \in Bars(closes) |->
                         IF ValidMask(n, window, t)
                         THEN BollingerRegime(d2.Close[t], d2.BB_Middle[t],
                                              d2.bb_var[t], num_std)
                         ELSE 0], n)

\* ---- apply_strategy ----
\* longest series the strategies are run on
MaxBars == 5
\* close prices of the series
PriceLevels == {1, 2, 3}
\* the series of the two scenarios of the contract
ScenarioSeries == {<<10, 10, 10, 10, 10, 10>>, <<10, 9, 8, 20>>}
CloseSeries ==
    UNION {[1..n -> PriceLevels] : n \in 1..MaxBars} \cup ScenarioSeries
SmaParams ==
    {[short_window |-> 1, long_window |-> 2], [short_window |-> 1, long_window |-> 3],
     [short_window |-> 2, long_window |-> 3]}
RsiParams == [window : {2, 3}, overbought : {70}, oversold : {30}]
MacdParams ==
    {[fast_period |-> 1, slow_period |-> 2, signal_period |-> 1],
     [fast_period |-> 1, slow_period |-> 2, signal_period |-> 2],
     [fast_period |-> 1, slow_period |-> 3, signal_period |-> 2]}
BollingerParams == [window : {1, 2, 3}, num_std : {1, 2}]

\* the lookback of each strategy: the W of `if len(data) > W`
Lookback(strategy, params) ==
    CASE strategy = "sma_crossover" -> params.long_window
      [] strategy = "rsi" -> params.window
      [] strategy = "macd" -> params.slow_period
      [] strategy = "bollinger_bands" -> params.window

\* the Signal column of strategy_class(**kwargs).generate_signals(data)
StrategySignal(strategy, params, closes) ==
    CASE strategy = "sma_crossover" ->
             SmaSignal(closes, params.short_window, params.long_window)
      [] strategy = "rsi" ->
             RsiSignal(closes, params.window, params.oversold, params.overbought)
      [] strategy = "macd" ->
             MacdSignal(closes, params.fast_period, params.slow_period,
                        params.signal_period)
      [] strategy = "bollinger_bands" ->
             BollingerSignal(closes, params.window, params.num_std)

\* one call of apply_strategy on a non-empty series: the Signal and Position
\* columns of the frame returned
GenerateSignals ==
    /\ call.op = "apply_strategy"
    /\ ~result.done
    /\ LET sig == StrategySignal(call.strategy, call.params, call.closes)
       IN  result' = [done |-> TRUE, Signal |-> sig, Position |-> PositionColumn(sig)]
    /\ UNCHANGED call
    /\ UNCHANGED <<btVars, liveVars>>
    /\ UNCHANGED appVars

(***************************************************************************)
(* Properties of the strategies.                                           *)
(***************************************************************************)
Applied == call.op = "apply_strategy" /\ result.done
\* the rows after the first, and the rows holding a BUY or a SELL event
LaterBars == Bars(call.closes) \ {0}
TradeBars == {t \in Bars(call.closes) : result.Position[t] \in {QInt(2), QInt(-2)}}
SignalStep(t) == result.Signal[t] - result.Signal[t - 1]

\* C14: at every index t >= 1 the event is in {-2, 0, 2}: 2 when the Signal
\* rose, -2 when it fell, 0 when it stayed, whatever the size of the change.
C14_EventFollowsSignalChange ==
    Applied =>
        \A t \in LaterBars :
            /\ result.Position[t] \in {QInt(-2), Zero, QInt(2)}
            /\ SignalStep(t) > 0 => result.Position[t] = QInt(2)
            /\ SignalStep(t) < 0 => result.Position[t] = QInt(-2)
            /\ SignalStep(t) = 0 => result.Position[t] = Zero

\* a series with a Signal change of 1 and a later change of 2 the other way
C14_Witness ==
    /\ Applied
    /\ \E t, u \in LaterBars :
          /\ SignalStep(t) = -1 /\ result.Position[t] = QInt(-2)
          /\ SignalStep(u) = 2 /\ result.Position[u] = QInt(2)

\* C15: the event at the first index of the series returned is 0.
C15_FirstEventIsZero ==
    Applied => result.Position[0] = Zero

\* C16: the Signal is 0 at every index below the lookback W of the strategy,
\* and everywhere when the series has at most W bars.
C16_WarmUpNeutral ==
    Applied =>
        LET W == Lookback(call.strategy, call.params)
        IN  /\ \A t \in Bars(call.closes) : t < W => result.Signal[t] = 0
            /\ Len(call.closes) <= W =>
                  \A t \in Bars(call.closes) : result.Signal[t] = 0

\* a series longer than the lookback, neutral below it and not at it
C16_Witness ==
    /\ Applied
    /\ LET W == Lookback(call.strategy, call.params)
       IN  /\ Len(call.closes) > W
           /\ result.Signal[W] # 0
           /\ \A t \in 0..(W - 1) : result.Signal[t] = 0

\* C17 as stated: no strategy changes its Signal by 2 from one index to the
\* next.
C17_NoJumpOfTwo ==
    Applied => \A t \in LaterBars : SignalStep(t) \in {-1, 0, 1}

\* C17 amended: the Signal is in {-1, 0, 1} at every index, so it changes by
\* at most 2 from one index to the next.
C17_JumpAtMostTwo ==
    Applied =>
        /\ \A t \in Bars(call.closes) : result.Signal[t] \in {-1, 0, 1}
        /\ \A t \in LaterBars : SignalStep(t) \in {-2, -1, 0, 1, 2}

\* an SMA crossover series whose Signal goes from -1 to 1 in one step
C17_Witness ==
    /\ Applied
    /\ call.strategy = "sma_crossover"
    /\ \E t \in LaterBars : result.Signal[t - 1] = -1 /\ result.Signal[t] = 1

\* C18: on a constant series SMA crossover (short_window < long_window)
\* produces at most one BUY or SELL event and its Signal does not change
\* after index long_window.
FlatSeries == \A t \in Bars(call.closes) : call.closes[t + 1] = call.closes[1]
C18_FlatSeriesOneEvent ==
    (Applied /\ call.strategy = "sma_crossover" /\ FlatSeries) =>
        /\ Cardinality(TradeBars) <= 1
        /\ \A t \in LaterBars :
              t > call.params.long_window => result.Signal[t] = result.Signal[t - 1]

\* SMA crossover (2, 3) has run on [10, 10, 10, 10, 10, 10] and produced an
\* event
C18_Witness ==
    /\ Applied
    /\ call.strategy = "sma_crossover"
    /\ call.params = [short_window |-> 2, long_window |-> 3]
    /\ call.closes = <<10, 10, 10, 10, 10, 10>>
    /\ TradeBars # {}

\* C19: RSI (window 2, oversold 30, overbought 70) on [10, 9, 8, 20] gives a
\* BUY at the first index where the Signal is 1, a SELL at the last bar and
\* no other BUY or SELL.
RsiScenario ==
    /\ call.op = "apply_strategy"
    /\ call.strategy = "rsi"
    /\ call.params = [window |-> 2, overbought |-> 70, oversold |-> 30]
    /\ call.closes = <<10, 9, 8, 20>>
C19_RsiScenario ==
    (RsiScenario /\ result.done) =>
        \E b \in 1..2 :
            /\ result.Signal[b] = 1
            /\ \A t \in 0..(b - 1) : result.Signal[t] # 1
            /\ result.Position[b] = QInt(2)
            /\ result.Position[3] = QInt(-2)
            /\ TradeBars = {b, 3}

\* the scenario has run
C19_Witness == RsiScenario /\ result.done /\ TradeBars # {}

\* C20: at every index with a full window whose average loss is zero the
\* RSI is 100, so the Signal there is -1 once the warm-up is over
\* (overbought < 100).
C20_RsiHundredWithoutLoss ==
    (Applied /\ call.strategy = "rsi") =>
        LET W == call.params.window
            data == RsiFrame(call.closes, W)
            rsi == data.RSI
        IN  \A t \in Bars(call.closes) :
                data.loss[t] = Zero =>
                    /\ rsi[t] = QInt(100)
                    /\ ValidMask(Len(call.closes), W, t) => result.Signal[t] = -1

(***************************************************************************)
(* Statistics: calculate_metrics (src/backtester.py) and                   *)
(* RiskManager.get_risk_summary (src/risk_manager.py)                      *)
(***************************************************************************)
\* the ledgers the statistics are computed on: the Total column, row by row
MaxLedgerRows == 4

\* portfolio['Total'].pct_change().dropna(): one return per row after the first
Returns(total) ==
    [t \in 1..(Len(total) - 1) |-> Q(total[t + 1] - total[t], total[t])]

RECURSIVE SumSeq(_, _)
SumSeq(x, k) == IF k > Len(x) THEN Zero ELSE QAdd(x[k], SumSeq(x, k + 1))
\* returns.mean(): NaN for an empty series
SeriesMean(x) == IF Len(x) = 0 THEN NaN ELSE QDiv(SumSeq(x, 1), QInt(Len(x)))
\* the square of returns.std() (ddof = 1): NaN for fewer than two values
SeriesVar(x) ==
    IF Len(x) < 2 THEN NaN
    ELSE LET mean == SeriesMean(x)
             sq == [k \in 1..Len(x) |-> QMul(QSub(x[k], mean), QSub(x[k], mean))]
         IN  QDiv(SumSeq(sq, 1), QInt(Len(x) - 1))

\* mean / std * sqrt(252), kept as the value times its absolute value (the
\* square with the sign of the mean), which is rational: NaN when the
\* deviation is NaN or both are 0, inf when only the deviation is 0
SharpeRatio(mean, var) ==
    IF ~IsNumber(mean) \/ ~IsNumber(var) THEN NaN
    ELSE IF var = Zero THEN (IF mean = Zero THEN NaN ELSE Inf)
    ELSE QMul(QInt(252), QDiv(QMul(mean, QAbs(mean)), var))

\* Total.cummax() at row t
CumMax(total, t) ==
    CHOOSE m \in {total[k] : k \in 1..t} : \A k \in 1..t : total[k] <= m
QMaxOf(S) == CHOOSE x \in S : \A y \in S : QLe(y, x)

\* calculate_metrics
calculate_metrics(total) ==
    LET returns == Returns(total)
        var == SeriesVar(returns)
    IN  IF Len(returns) = 0 \/ var = Zero
        THEN [sharpe_ratio |-> Zero, max_drawdown |-> Zero]
        ELSE [sharpe_ratio |-> SharpeRatio(SeriesMean(returns), var),
              max_drawdown |->
                  QMaxOf({Q(CumMax(total, t) - total[t], CumMax(total, t)) :
                          t \in 1..Len(total)})]

\* RiskManager._calculate_max_drawdown
calculate_max_drawdown(total) ==
    LET drawdown == {Q(total[t] - CumMax(total, t), CumMax(total, t)) :
                     t \in 1..Len(total)}
    IN  QAbs(CHOOSE x \in drawdown : \A y \in drawdown : QLe(x, y))

\* RiskManager.get_risk_summary: its sharpe_ratio and max_drawdown entries
get_risk_summary(total) ==
    LET returns == Returns(total)
        var == SeriesVar(returns)
    IN  [sharpe_ratio |->
             IF Len(returns) > 1 /\ FLt(Zero, var)
             THEN SharpeRatio(SeriesMean(returns), var) ELSE Zero,
         max_drawdown |-> calculate_max_drawdown(total)]

\* one call of calculate_metrics
CalculateMetrics ==
    /\ call.op = "calculate_metrics"
    /\ ~result.done
    /\ LET m == calculate_metrics(call.total)
       IN  result' = [done |-> TRUE, sharpe_ratio |-> m.sharpe_ratio,
                      max_drawdown |-> m.max_drawdown]
    /\ UNCHANGED call
    /\ UNCHANGED <<btVars, liveVars>>
    /\ UNCHANGED appVars

\* one call of get_risk_summary
GetRiskSummary ==
    /\ call.op = "get_risk_summary"
    /\ ~result.done
    /\ LET m == get_risk_summary(call.total)
       IN  result' = [done |-> TRUE, sharpe_ratio |-> m.sharpe_ratio,
                      max_drawdown |-> m.max_drawdown]
    /\ UNCHANGED call
    /\ UNCHANGED <<btVars, liveVars>>
    /\ UNCHANGED appVars

\* C23: for every ledger of at least one row the sharpe_ratio reported by
\* calculate_metrics and by get_risk_summary is a finite number, and it is 0
\* when there is no return or the returns have zero variance.
C23_SharpeDefined ==
    (call.op \in {"calculate_metrics", "get_risk_summary"} /\ result.done) =>
        /\ IsNumber(result.sharpe_ratio)
        /\ (Len(call.total) = 1 \/ SeriesVar(Returns(call.total)) = Zero) =>
              result.sharpe_ratio = Zero

\* C24: calculate_metrics and get_risk_summary report the same max_drawdown,
\* the drawdown of the spec, and it is 0 exactly when Total never decreases.
C24_SameMaxDrawdown ==
    (call.op \in {"calculate_metrics", "get_risk_summary"} /\ result.done) =>
        /\ result.max_drawdown = calculate_metrics(call.total).max_drawdown
        /\ result.max_drawdown = get_risk_summary(call.total).max_drawdown
        /\ result.max_drawdown =
              QMaxOf({Q(CumMax(call.total, t) - call.total[t], CumMax(call.total, t)) :
                      t \in 1..Len(call.total)})
        /\ result.max_drawdown = Zero
              <=> \A t \in 1..(Len(call.total) - 1) : call.total[t] <= call.total[t + 1]

\* C11: a cycle in which every submit_order raised (and the broker refresh
\* was not due) leaves positions, cash and last_trade_time as they were;
\* the error stays inside the call: the cycle ends normally and the thread
\* goes to its sleep.
C11_SubmitErrorLeavesBooks ==
    [][(/\ pc = "cycle"
        /\ \E j \in DOMAIN calls' : calls'[j].op = "submit"
        /\ \A j \in DOMAIN calls' : calls'[j].op = "submit" => ~calls'[j].ok
        /\ cycle_count' # 0)
       => /\ positions' = positions
          /\ cash' = cash
          /\ last_trade_time' = last_trade_time
          /\ cycle_error'
          /\ pc' = "sleep"]_vars

\* a cycle in which submit_order raised has just ended
C11_Witness ==
    /\ pc = "sleep"
    /\ cycle_count # 0
    /\ Submits # {}
    /\ \A j \in Submits : ~calls[j].ok

(***************************************************************************)
(* The web application (src/app.py): /start_trading, /stop_trading and     *)
(* /configure_trading, and the thread each engine's start_trading runs in. *)
(* A request handler runs as one step, except set_strategy inside          *)
(* /configure_trading, whose two assignments an engine thread can run      *)
(* between.  A cycle is reduced to its one apply_strategy call.            *)
(***************************************************************************)
MaxEngines == 2
MaxStarts == 2
MaxStops == 1
MaxConfigures == 1
MaxCycles == 2
EngineIds == 1..MaxEngines

\* the strategy /start_trading installs
StartStrategy == <<"rsi", [window |-> 14, overbought |-> 60, oversold |-> 40]>>
\* the (strategy, strategy_params) of a /configure_trading request
ConfigureRequests ==
    {<<"bollinger_bands", [window |-> 20, num_std |-> 2]>>,
     <<"momentum", [lookback |-> 5]>>}

\* /start_trading
StartTradingRequest ==
    /\ requests.start < MaxStarts
    /\ requests' = [requests EXCEPT !.start = @ + 1]
    /\ IF trading_engine # 0 /\ engines[trading_engine].is_trading
       THEN /\ start_answer' = [success |-> FALSE, after_start |-> started]
            /\ UNCHANGED <<trading_engine, engines, installed, started>>
       ELSE \E e \in EngineIds :
               /\ engines[e].thread = "none"
               /\ \A d \in EngineIds : d < e => engines[d].thread # "none"
               /\ trading_engine' = e
               /\ engines' = [engines EXCEPT ![e] =
                                [is_trading |-> FALSE,
                                 strategy_name |-> StartStrategy[1],
                                 strategy_params |-> StartStrategy[2],
                                 thread |-> "started", cycle |-> 0,
                                 name_read |-> "none"]]
               \* config.DEFAULT_STRATEGY by __init__, then set_strategy
               /\ installed' = installed \cup
                     {<<"sma_crossover", [short_window |-> 20, long_window |-> 50]>>,
                      StartStrategy}
               /\ start_answer' = [success |-> TRUE, after_start |-> started]
               /\ started' = TRUE
    /\ UNCHANGED <<configuring, applied>>
    /\ UNCHANGED <<btVars, liveVars, callVars>>

\* /stop_trading
StopTradingRequest ==
    /\ trading_engine # 0
    /\ requests.stop < MaxStops
    /\ requests' = [requests EXCEPT !.stop = @ + 1]
    /\ engines' = [engines EXCEPT ![trading_engine].is_trading = FALSE]
    /\ started' = FALSE
    /\ UNCHANGED <<trading_engine, configuring, applied, installed, start_answer>>
    /\ UNCHANGED <<btVars, liveVars, callVars>>

\* /configure_trading up to the first assignment of set_strategy
ConfigureSetName ==
    /\ trading_engine # 0
    /\ ~configuring.active
    /\ requests.configure < MaxConfigures
    /\ requests' = [requests EXCEPT !.configure = @ + 1]
    /\ \E strategy \in ConfigureRequests :
          /\ engines' = [engines EXCEPT
                            ![trading_engine].strategy_name = strategy[1]]
          /\ configuring' = [active |-> TRUE, engine |-> trading_engine,
                             strategy |-> strategy]
    /\ UNCHANGED <<trading_engine, applied, installed, started, start_answer>>
    /\ UNCHANGED <<btVars, liveVars, callVars>>

\* the second assignment of set_strategy, and the answer
ConfigureSetParams ==
    /\ configuring.active
    /\ engines' = [engines EXCEPT
                      ![configuring.engine].strategy_params = configuring.strategy[2]]
    /\ installed' = installed \cup {configuring.strategy}
    /\ configuring' = [active |-> FALSE]
    /\ UNCHANGED <<trading_engine, applied, started, start_answer, requests>>
    /\ UNCHANGED <<btVars, liveVars, callVars>>

\* the thread enters TradingEngine.start_trading
ThreadStart(e) ==
    /\ engines[e].thread = "started"
    /\ engines' = [engines EXCEPT ![e].is_trading = TRUE, ![e].thread = "while"]
    /\ UNCHANGED <<trading_engine, configuring, applied, installed, started,
                   start_answer, requests>>
    /\ UNCHANGED <<btVars, liveVars, callVars>>

\* while self.is_trading
ThreadLoopTest(e) ==
    /\ engines[e].thread = "while"
    /\ engines[e].is_trading => engines[e].cycle < MaxCycles
    /\ engines' = [engines EXCEPT
                      ![e].thread = IF engines[e].is_trading THEN "cycle"
                                    ELSE "returned",
                      ![e].cycle = IF engines[e].is_trading THEN @ + 1 ELSE @]
    /\ UNCHANGED <<trading_engine, configuring, applied, installed, started,
                   start_answer, requests>>
    /\ UNCHANGED <<btVars, liveVars, callVars>>

\* _generate_signals evaluates self.strategy_name
ThreadReadName(e) ==
    /\ engines[e].thread = "cycle"
    /\ engines' = [engines EXCEPT ![e].name_read = engines[e].strategy_name,
                                  ![e].thread = "name_read"]
    /\ UNCHANGED <<trading_engine, configuring, applied, installed, started,
                   start_answer, requests>>
    /\ UNCHANGED <<btVars, liveVars, callVars>>

\* _generate_signals evaluates self.strategy_params and calls apply_strategy;
\* whatever it raises is caught, and the thread goes to sleep
ThreadApply(e) ==
    /\ engines[e].thread = "name_read"
    /\ applied' = applied \cup
                     {[engine |-> e, cycle |-> engines[e].cycle,
                       strategy_name |-> engines[e].name_read,
                       strategy_params |-> engines[e].strategy_params]}
    /\ engines' = [engines EXCEPT ![e].thread = "sleep"]
    /\ UNCHANGED <<trading_engine, configuring, installed, started, start_answer,
                   requests>>
    /\ UNCHANGED <<btVars, liveVars, callVars>>

\* time.sleep returns
ThreadWake(e) ==
    /\ engines[e].thread = "sleep"
    /\ engines' = [engines EXCEPT ![e].thread = "while"]
    /\ UNCHANGED <<trading_engine, configuring, applied, installed, started,
                   start_answer, requests>>
    /\ UNCHANGED <<btVars, liveVars, callVars>>

\* the engines whose thread is inside the loop of start_trading with
\* is_trading set
LoopRunning(e) ==
    /\ engines[e].is_trading
    /\ engines[e].thread \in {"cycle", "name_read", "sleep"}

\* C28: at most one trading loop runs, every running loop belongs to the
\* engine in the global trading_engine, and a /start_trading that follows a
\* successful one with no stop in between is rejected.
C28_SingleTradingLoop ==
    /\ Cardinality({e \in EngineIds : LoopRunning(e)}) <= 1
    /\ \A e \in EngineIds : LoopRunning(e) => e = trading_engine
    /\ start_answer.after_start => ~start_answer.success

\* C29: every apply_strategy call of a live cycle uses a name and parameters
\* that one set_strategy call (or the initial configuration) installed
\* together.
C29_StrategyPairInstalledTogether ==
    \A a \in applied : <<a.strategy_name, a.strategy_params>> \in installed

\* an engine whose apply_strategy call was made with a name apply_strategy
\* does not know makes no later call with that name
UnknownStrategyNotRetried ==
    \A a, b \in applied :
        (a.engine = b.engine /\ a.strategy_name = b.strategy_name
            /\ a.strategy_name \notin KnownStrategies)
        => a.cycle = b.cycle

\* the application as imported: no engine, no thread
AppParked ==
    /\ trading_engine = 0
    /\ engines = [e \in EngineIds |->
                    [is_trading |-> FALSE, strategy_name |-> "none",
                     strategy_params |-> <<>>, thread |-> "none", cycle |-> 0,
                     name_read |-> "none"]]
    /\ configuring = [active |-> FALSE]
    /\ applied = {}
    /\ installed = {}
    /\ started = FALSE
    /\ start_answer = [success |-> FALSE, after_start |-> FALSE]
    /\ requests = [start |-> 0, stop |-> 0, configure |-> 0]

\* no backtest running, for the live specifications
BtParked ==
    /\ data_dict = <<>>
    /\ order = <<"A", "B">>
    /\ weights = [t \in Tickers |-> Q(1, 2)]
    /\ portfolio = [r \in 0..(MaxRows - 1) |->
                      [Holdings |-> Zero, Cash |-> QInt(InitialCash),
                       Total |-> QInt(InitialCash)]]
    /\ shares = [t \in Tickers |-> Zero]
    /\ shares_before = [t \in Tickers |-> Zero]
    /\ trades = <<>>
    /\ i = 1

\* no call pending, for the backtest and the live specifications
CallParked ==
    /\ call = [op |-> "none"]
    /\ result = [done |-> FALSE]

Init == BtInit /\ EngineParked /\ CallParked /\ AppParked

Next == BacktestStep

Spec == Init /\ [][Next]_vars

LiveInit == BtParked /\ EngineInit /\ CallParked /\ AppParked

LoopThread == LoopEnter \/ LoopCheck \/ TradingCycle \/ Wake

LiveNext == LoopEnter \/ LoopCheck \/ TradingCycle \/ Wake \/ StopTrading

LiveSpec == LiveInit /\ [][LiveNext]_vars

\* the call and its arguments, drawn from the bounded sets
CallInputs ==
    \/ call \in ValidateCalls
    \/ \E closes \in CloseSeries :
          \/ \E ps \in SmaParams :
                call = [op |-> "apply_strategy", strategy |-> "sma_crossover",
                        params |-> ps, closes |-> closes]
          \/ \E ps \in RsiParams :
                call = [op |-> "apply_strategy", strategy |-> "rsi",
                        params |-> ps, closes |-> closes]
          \/ \E ps \in MacdParams :
                call = [op |-> "apply_strategy", strategy |-> "macd",
                        params |-> ps, closes |-> closes]
          \/ \E ps \in BollingerParams :
                call = [op |-> "apply_strategy", strategy |-> "bollinger_bands",
                        params |-> ps, closes |-> closes]
    \/ call \in SizingCalls
    \/ call \in BacktestRequests
    \* the Total column of a ledger of up to MaxLedgerRows rows
    \/ \E total \in UNION {[1..n -> {1, 2, 4}] : n \in 1..MaxLedgerRows} :
          \/ call = [op |-> "calculate_metrics", total |-> total]
          \/ call = [op |-> "get_risk_summary", total |-> total]

CallInit ==
    /\ BtParked
    /\ EngineParked
    /\ CallInputs
    /\ result = [done |-> FALSE]
    /\ AppParked

CallNext ==
    \/ ValidateTrade \/ SizeAndValidate \/ GenerateSignals \/ RunBacktest
    \/ CalculateMetrics \/ GetRiskSummary

\* one call of a function of risk_manager.py or strategy.py
CallSpec == CallInit /\ [][CallNext]_vars

\* the loop thread is scheduled and time.sleep returns
FairLiveSpec == LiveSpec /\ WF_vars(LoopThread)

AppInit == BtParked /\ EngineParked /\ CallParked /\ AppParked

AppNext ==
    \/ StartTradingRequest
    \/ StopTradingRequest
    \/ ConfigureSetName
    \/ ConfigureSetParams
    \/ \E e \in EngineIds :
          \/ ThreadStart(e) \/ ThreadLoopTest(e) \/ ThreadReadName(e)
          \/ ThreadApply(e) \/ ThreadWake(e)

\* the request handlers of app.py interleaved with the engine threads
AppSpec == AppInit /\ [][AppNext]_vars

====
